---------------------------- MODULE Spec2Model ----------------------------
(***************************************************************************)
(* A model of lamb, a static-site generator (src/src/index.ts, scope.ts,   *)
(* page.ts, transform.ts).                                                 *)
(*                                                                         *)
(* Strings are sequences of tokens: a file name "_layout.html" is          *)
(* <<"_", "layout", ".html">>, a path is a sequence of file names, and the *)
(* text of a page is a sequence of markup tokens.  Objects (LambScope,     *)
(* LambPage) live in two heaps and are referred to by their index, so two  *)
(* objects built for one path are told apart.                              *)
(***************************************************************************)
EXTENDS Integers, Sequences, FiniteSets, TLC

VARIABLES
    fsDirs,      \* the directories of the file system: path -> listing (readdir order)
    fsFiles,     \* the files of the file system: path -> file
    cfgFile,     \* what lamb.config.json holds: "absent", "invalid", "noOutdir", "outdir"
    scopes,      \* heap of LambScope objects, in creation order
    pages,       \* heap of LambPage objects, in creation order
    scopecache,  \* LambState.scopecache: path -> index into scopes
    filecache,   \* LambState.filecache: path -> index into pages
    pc,          \* main(): "start", "children", "mkdir", "render", "done", "failed"
    outdir,      \* configuration.outdir as main() holds it (NoPath: undefined)
    tasks,       \* the createScopeChildren calls in flight, in call order
    frames,      \* the call stack of renderScope
    errors,      \* the errors raised so far, in order: [by, error, handled]
    exitCode,    \* the completion status of the process (-1: still running)
    written,     \* the output files written by the current run, in order
    run,         \* 1: first build of the project, 2: the build repeated
    firstOut,    \* how the first build had ended: the files under outdir, the errors
    calls,       \* the number of API calls made so far (specification SpecCalls)
    last         \* the last API call: [op, path, ret, err] and the heaps it found

vars == <<fsDirs, fsFiles, cfgFile, scopes, pages, scopecache, filecache, pc,
          outdir, tasks, frames, errors, exitCode, written, run, firstOut,
          calls, last>>

-----------------------------------------------------------------------------
(* Bounds of the model.                                                    *)

\* The deepest directory below the project directory.
MaxDepth == 1

\* The number of API calls in a behaviour of SpecCalls.
MaxCalls == 3

\* The number of markdown files that a component may import.
MaxPosts == 2

\* The number of tokens of a page's contents, and of a body given to renderPage.
MaxLen == 2

-----------------------------------------------------------------------------
(* Sequences.                                                              *)

Last(s) == s[Len(s)]

Front(s) == SubSeq(s, 1, Len(s) - 1)

Range(s) == {s[i] : i \in 1..Len(s)}

RECURSIVE Concat(_)
Concat(ss) == IF ss = <<>> THEN <<>> ELSE Head(ss) \o Concat(Tail(ss))

\* The function f with x mapped to v (f need not be defined at x).
Put(f, x, v) == [y \in DOMAIN f \cup {x} |-> IF y = x THEN v ELSE f[y]]

EmptyMap == <<>>

-----------------------------------------------------------------------------
(* Paths (node:path).                                                      *)

\* The name tokens that start with a dot: what path.parse takes for an extension.
DotTokens == {".md", ".mdx", ".htm", ".html", ".js", ".jsx", ".ts", ".tsx",
              ".txt", ".json", ".2", ".3"}

\* undefined, where a path is expected
NoPath == <<<<"undefined">>>>

\* "/", the root of the file system: absolute paths start with it
FsRoot == <<<<"/">>>>

IsAbsolute(p) == p # <<>> /\ Head(p) = <<"/">>

\* path.parse(p).base
PathBase(p) == IF p = <<>> \/ p = FsRoot THEN <<>> ELSE Last(p)

\* path.parse(p).ext: the last dot and what follows it, unless the base starts with it
PathExt(p) ==
    LET b == PathBase(p)
    IN  IF Len(b) > 1 /\ Last(b) \in DotTokens THEN Last(b) ELSE ""

\* path.parse(p).name: the base without its extension
PathName(p) ==
    LET b == PathBase(p)
    IN  IF Len(b) > 1 /\ Last(b) \in DotTokens THEN Front(b) ELSE b

\* path.parse(p).dir: the directory of "/" is "/", that of "" is ""
PathDir(p) == IF p = <<>> \/ p = FsRoot THEN p ELSE Front(p)

\* path.join(dir, name)
PathJoin(dir, name) == Append(dir, name)

\* String.prototype.startsWith("_")
StartsWithUnderscore(name) == name # <<>> /\ Head(name) = "_"

IsPrefix(p, q) == Len(p) <= Len(q) /\ SubSeq(q, 1, Len(p)) = p

-----------------------------------------------------------------------------
(* The file system (node:fs).                                              *)

\* A file: its text (tokens) and, for a component, its top-level statements;
\* valid = FALSE: the compiler (mdx, babel) rejects it.
File(text, stmts, valid) == [text |-> text, stmts |-> stmts, valid |-> valid]

\* existsSync(p)
exists(p) == p \in DOMAIN fsFiles \/ p \in DOMAIN fsDirs

\* (await fs.lstat(p)).isDirectory()
isDirectory(p) == p \in DOMAIN fsDirs

\* await fs.readdir(p)
readdir(p) == fsDirs[p]

\* fs.mkdir(p) on directories d: the new directory is listed in its parent
MkdirIn(d, p) ==
    LET withParent == IF PathDir(p) \in DOMAIN d /\ PathDir(p) # p
                      THEN Put(d, PathDir(p), Append(d[PathDir(p)], PathBase(p)))
                      ELSE d
    IN  Put(withParent, p, <<>>)

\* fs.writeFile(p, text) on directories d: a new file is listed in its directory
ListFileIn(d, p, f) ==
    IF p \in DOMAIN f \/ PathDir(p) \notin DOMAIN d THEN d
    ELSE Put(d, PathDir(p), Append(d[PathDir(p)], PathBase(p)))

-----------------------------------------------------------------------------
(* The state of a build (LambState) and the results of its operations.     *)

\* LambState with its heaps: the argument `state` of every operation.
State == [scopes |-> scopes, pages |-> pages,
          scopecache |-> scopecache, filecache |-> filecache]

EmptyState == [scopes |-> <<>>, pages |-> <<>>,
               scopecache |-> EmptyMap, filecache |-> EmptyMap]

\* An operation returns ret, or throws err (err # ""), in state s.
Return(s, ret) == [s |-> s, err |-> "", ret |-> ret]

Throw(s, err) == [s |-> s, err |-> err, ret |-> 0]

RootLayoutMissing == "Root layout is missing"

UnrecognizedExtension == "Unrecognized extension"

StackOverflow == "Maximum call stack size exceeded"

NoSuchFile == "ENOENT: no such file or directory"

CompileError == "SyntaxError"

InvalidConfig == "Invalid or missing configuration"

MkdirUndefined == "The path argument must be of type string. Received undefined"

-----------------------------------------------------------------------------
(* Values and syntax trees (src/src/transform.ts).                         *)

\* JavaScript values, as loaders return them and frontmatter holds them.
Null == [t |-> "null"]

Str(v) == [t |-> "str", v |-> v]

PathStr(p) == [t |-> "path", p |-> p]

Arr(elems) == [t |-> "arr", elems |-> elems]

Obj(keys, vals) == [t |-> "obj", keys |-> keys, vals |-> vals]

EmptyObj == Obj(<<>>, <<>>)

IndexOf(s, x) == IF x \in Range(s) THEN CHOOSE i \in 1..Len(s) : s[i] = x ELSE 0

\* obj[key] = val
ObjSet(obj, key, val) ==
    IF key \in Range(obj.keys)
    THEN Obj(obj.keys, [obj.vals EXCEPT ![IndexOf(obj.keys, key)] = val])
    ELSE Obj(Append(obj.keys, key), Append(obj.vals, val))

\* Object.assign(target, source), both objects
RECURSIVE ObjectAssign(_, _)
ObjectAssign(target, source) ==
    IF source.keys = <<>> THEN target
    ELSE ObjectAssign(ObjSet(target, Head(source.keys), Head(source.vals)),
                      Obj(Tail(source.keys), Tail(source.vals)))

\* valueToBabelExpr(value): the expression that evaluates to value
RECURSIVE valueToBabelExpr(_)
valueToBabelExpr(value) ==
    CASE value.t = "str" -> [type |-> "StringLiteral", value |-> value.v]
      [] value.t = "path" -> [type |-> "StringLiteral", path |-> value.p]
      [] value.t = "arr" ->
            [type |-> "ArrayExpression",
             elements |-> [i \in 1..Len(value.elems) |-> valueToBabelExpr(value.elems[i])]]
      [] value.t = "null" -> [type |-> "NullLiteral"]
      [] value.t = "obj" ->
            [type |-> "ObjectExpression",
             properties |-> [i \in 1..Len(value.keys) |->
                                [key |-> value.keys[i],
                                 value |-> valueToBabelExpr(value.vals[i])]]]

\* babelExprToValue(node), for the nodes it supports
RECURSIVE babelExprToValue(_)
babelExprToValue(node) ==
    CASE node.type = "StringLiteral" ->
            IF "path" \in DOMAIN node THEN PathStr(node.path) ELSE Str(node.value)
      [] node.type = "NullLiteral" -> Null
      [] node.type = "ArrayExpression" ->
            Arr([i \in 1..Len(node.elements) |-> babelExprToValue(node.elements[i])])
      [] node.type = "ObjectExpression" ->
            LET RECURSIVE build(_, _)
                build(i, obj) ==
                    IF i > Len(node.properties) THEN obj
                    ELSE build(i + 1, ObjSet(obj, node.properties[i].key,
                                             babelExprToValue(node.properties[i].value)))
            IN  build(1, EmptyObj)

\* Whether babelExprToValue supports node (else it throws "Unsupported node type").
RECURSIVE Supported(_)
Supported(node) ==
    CASE node.type \in {"StringLiteral", "NullLiteral"} -> TRUE
      [] node.type = "ArrayExpression" ->
            \A i \in 1..Len(node.elements) : Supported(node.elements[i])
      [] node.type = "ObjectExpression" ->
            \A i \in 1..Len(node.properties) : Supported(node.properties[i].value)
      [] OTHER -> FALSE

-----------------------------------------------------------------------------
(* Loaders of special imports (src/src/page.ts).                           *)

\* The line "---\n" of a document.
Dashes == "---\n"

\* A line that ends in three hyphens and is longer than them, and what stands
\* before the hyphens.
IntroDashes == "intro ---\n"

\* The lines in which /---\r?\n/ matches: the expression is not anchored to the
\* start of the line.
DashesAtEnd == {Dashes, IntroDashes}

\* What the line holds before the match.
BeforeDashes(line) == IF line = Dashes THEN <<>> ELSE <<"intro ">>

\* content.split(/---\r?\n/g): the parts between the matches
RECURSIVE Split(_)
SplitAt(content, i) ==
    <<SubSeq(content, 1, i - 1) \o BeforeDashes(content[i])>>
    \o Split(SubSeq(content, i + 1, Len(content)))

Split(content) ==
    IF Range(content) \cap DashesAtEnd = {} THEN <<content>>
    ELSE SplitAt(content, CHOOSE k \in 1..Len(content) :
                             /\ content[k] \in DashesAtEnd
                             /\ \A j \in 1..(k - 1) : content[j] \notin DashesAtEnd)

\* The lines "key: value\n" of the documents of the model.
YamlLines == {"title: A\n", "title: B\n", "date: D\n"}

YamlKey(line) == CASE line \in {"title: A\n", "title: B\n"} -> "title"
                   [] line = "date: D\n" -> "date"

YamlValue(line) == CASE line = "title: A\n" -> "A"
                     [] line = "title: B\n" -> "B"
                     [] line = "date: D\n" -> "D"

\* yaml.parse(text): null for an empty document, a mapping for lines "key: value",
\* and a scalar for anything else
RECURSIVE YamlMap(_, _)
YamlMap(text, obj) ==
    IF text = <<>> THEN obj
    ELSE YamlMap(Tail(text), ObjSet(obj, YamlKey(Head(text)), Str(YamlValue(Head(text)))))

YamlParse(text) ==
    IF text = <<>> THEN Null
    ELSE IF Range(text) \subseteq YamlLines THEN YamlMap(text, EmptyObj)
    ELSE Str(text)

EISDIR == "EISDIR: illegal operation on a directory"

NullToObject == "Cannot convert undefined or null to object"

\* process.cwd(): lamb is started in the project directory (args[0] undefined)
Cwd == <<<<"/">>, <<"site">>>>

\* A path as node:fs resolves it: a relative one against process.cwd()
RECURSIVE Normalize(_, _)
Normalize(base, rel) ==
    IF rel = <<>> THEN base
    ELSE IF Head(rel) = <<".">> THEN Normalize(base, Tail(rel))
    ELSE IF Head(rel) = <<"..">> THEN Normalize(PathDir(base), Tail(rel))
    ELSE Normalize(Append(base, Head(rel)), Tail(rel))

Resolve(p) == IF IsAbsolute(p) THEN p ELSE Normalize(Cwd, p)

\* `Object.assign(obj, { file: filepath }); return obj`, obj being what yaml.parse
\* returned: it throws on null, and a string is returned as it is (the property is
\* set on a wrapper object that is dropped)
WithFile(obj, filepath) ==
    CASE obj.t = "null" -> [err |-> NullToObject, ret |-> Null]
      [] obj.t = "obj" -> [err |-> "", ret |-> ObjSet(obj, "file", PathStr(filepath))]
      [] obj.t = "str" -> [err |-> "", ret |-> obj]

\* `if (parts.length >= 3) obj = yaml.parse(parts[1])`
PartsObject(parts) == IF Len(parts) >= 3 THEN YamlParse(parts[2]) ELSE EmptyObj

\* Loaders.Markdown, from readFileSync(filepath) on; file: the file that is read
ReadAndLoad(filepath, file) ==
    IF file \in DOMAIN fsDirs THEN [err |-> EISDIR, ret |-> Null]
    ELSE IF file \notin DOMAIN fsFiles THEN [err |-> NoSuchFile, ret |-> Null]
    ELSE WithFile(PartsObject(Split(fsFiles[file].text)), filepath)

\* Loaders.Markdown(state, filepath): [err, ret]
LoadersMarkdown(filepath) == ReadAndLoad(filepath, Resolve(filepath))

\* .txt taken for an extension with a loader, with those of LoaderMap.
LoaderMapAndTxt == {".md", ".mdx", ".txt"}

\* LoaderMap: the extensions with a loader
LoaderMap == {".md", ".mdx"}

-----------------------------------------------------------------------------
(* glob.sync(pattern, { cwd }).                                            *)

\* Whether the name matches the pattern segment; "*" stands for any tokens.
RECURSIVE TokMatch(_, _)
TokMatch(pat, name) ==
    IF pat = <<>> THEN name = <<>>
    ELSE IF Head(pat) = "*"
         THEN \E k \in 0..Len(name) : TokMatch(Tail(pat), SubSeq(name, k + 1, Len(name)))
         ELSE name # <<>> /\ Head(name) = Head(pat) /\ TokMatch(Tail(pat), Tail(name))

\* A leading "*" does not match a name that starts with a dot.
SegMatch(pat, name) ==
    TokMatch(pat, name) /\ ~(Head(pat) = "*" /\ name # <<>> /\ Head(name) \in DotTokens)

\* The paths, relative to the start, that match the segments segs from directory dir
\* on, in the order of the directories' listings.
RECURSIVE GlobFrom(_, _, _)
GlobFrom(dir, segs, rel) ==
    IF segs = <<>> THEN (IF exists(dir) THEN <<rel>> ELSE <<>>)
    ELSE IF Head(segs) = <<".">> THEN GlobFrom(dir, Tail(segs), rel)
    ELSE IF dir \notin DOMAIN fsDirs THEN <<>>
    ELSE Concat([i \in 1..Len(fsDirs[dir]) |->
                    IF SegMatch(Head(segs), fsDirs[dir][i])
                    THEN GlobFrom(Append(dir, fsDirs[dir][i]), Tail(segs),
                                  Append(rel, fsDirs[dir][i]))
                    ELSE <<>>])

GlobSync(pattern, cwd) == GlobFrom(cwd, pattern, <<>>)

\* importPath.includes("*")
IncludesStar(importPath) == \E i \in 1..Len(importPath) : "*" \in Range(importPath[i])

-----------------------------------------------------------------------------
(* The babel plugins (InhousePlugins) and transform().                     *)

\* Statements of a component's source.
Import(source, specifiers) ==
    [kind |-> "import", source |-> source, specifiers |-> specifiers]

\* const <id> = <init>; top: a top-level statement of the source
Const(id, init, top) == [kind |-> "const", id |-> id, init |-> init, top |-> top]

Identifier(name) == [type |-> "Identifier", name |-> name]

\* The pattern { imported: local }
ObjectPattern(imported, local) ==
    [type |-> "ObjectPattern", imported |-> imported, local |-> local]

\* await import(source)
AwaitImport(source) == [type |-> "AwaitExpression", source |-> source]

\* Import specifiers: import local / import { imported as local } / import * as local
Specifier(kind, imported, local) == [kind |-> kind, imported |-> imported, local |-> local]

\* What a visitor leaves behind: the statement, the frontmatter accumulator, the
\* loader calls made (file paths, in order), and the error thrown ("": none).
Visited(stmt, fm, loaded, err) == [stmt |-> stmt, fm |-> fm, loaded |-> loaded, err |-> err]

\* files.map((file) => loader(lambstate, file)): the results up to the first throw
RECURSIVE MapLoader(_, _)
MapNext(files, acc, r) ==
    IF r.err # ""
    THEN [acc EXCEPT !.loaded = Append(@, Head(files)), !.err = r.err]
    ELSE MapLoader(Tail(files), [acc EXCEPT !.loaded = Append(@, Head(files)),
                                            !.values = Append(@, r.ret)])

MapLoader(files, acc) ==
    IF files = <<>> THEN acc ELSE MapNext(files, acc, LoadersMarkdown(Head(files)))

\* The matches of the glob, handed on as glob returns them.
NotJoined(directoryPath, subpaths) == subpaths

\* .map((subpath) => path.join(directoryPath, subpath))
JoinAll(directoryPath, subpaths) ==
    [i \in 1..Len(subpaths) |-> directoryPath \o subpaths[i]]

\* The value of a glob import: [value, loaded, err]
GlobValue(many) == [value |-> Arr(many.values), loaded |-> many.loaded, err |-> many.err]

\* The value of an import of a single file
SingleValue(importPath, one) ==
    [value |-> one.ret, loaded |-> <<importPath>>, err |-> one.err]

\* SpecialImports: `let value`, by the loader
ImportValue(importPath, directoryPath) ==
    IF IncludesStar(importPath)
    THEN GlobValue(MapLoader(JoinAll(directoryPath, GlobSync(importPath, directoryPath)),
                             [values |-> <<>>, loaded |-> <<>>, err |-> ""]))
    ELSE SingleValue(importPath, LoadersMarkdown(importPath))

\* SpecialImports: npath.replaceWith(const <specifiers[0].local> = <value>)
ReplaceImport(stmt, fm, v) ==
    IF v.err # "" THEN Visited(stmt, fm, v.loaded, v.err)
    ELSE IF stmt.specifiers = <<>>
    THEN Visited(stmt, fm, v.loaded, "Cannot read properties of undefined (reading 'local')")
    ELSE Visited(Const(Identifier(stmt.specifiers[1].local), valueToBabelExpr(v.value), TRUE),
                 fm, v.loaded, "")

\* InhousePlugins.SpecialImports, visitor ImportDeclaration
SpecialImports(stmt, filename, fm) ==
    IF PathExt(stmt.source) \notin LoaderMap THEN Visited(stmt, fm, <<>>, "")
    ELSE ReplaceImport(stmt, fm, ImportValue(stmt.source, PathDir(filename)))

\* InhousePlugins.ConvertToDynamicImports, visitor ImportDeclaration: each default or
\* named specifier in turn replaces the statement
RECURSIVE ConvertSpecifiers(_, _, _)
ConvertSpecifiers(stmt, specifiers, source) ==
    IF specifiers = <<>> THEN [stmt |-> stmt, err |-> ""]
    ELSE LET sp == Head(specifiers)
         IN  IF sp.kind = "default"
             THEN [stmt |-> stmt,
                   err |-> "Cannot read properties of undefined (reading 'name')"]
             ELSE IF sp.kind = "named"
             THEN ConvertSpecifiers(
                      Const(ObjectPattern(sp.imported, sp.local), AwaitImport(source), TRUE),
                      Tail(specifiers), source)
             ELSE ConvertSpecifiers(stmt, Tail(specifiers), source)

Converted(fm, r) == Visited(r.stmt, fm, <<>>, r.err)

ConvertToDynamicImports(stmt, fm) ==
    Converted(fm, ConvertSpecifiers(stmt, stmt.specifiers, stmt.source))

\* export default <declaration>
ExportDefault(declaration) == [kind |-> "exportDefault", declaration |-> declaration]

\* InhousePlugins.ConvertToDynamicImports, visitor ExportDefaultDeclaration
ExportToReturn(stmt) == [kind |-> "return", argument |-> stmt.declaration]

\* InhousePlugins.ExtractFrontmatter, visitor VariableDeclaration
ExtractFrontmatter(stmt, fm) ==
    IF stmt.id.type = "Identifier" /\ stmt.id.name = "frontmatter"
       /\ stmt.init.type = "ObjectExpression"
    THEN IF Supported(stmt.init)
         THEN Visited(stmt, ObjectAssign(fm, babelExprToValue(stmt.init)), <<>>, "")
         ELSE Visited(stmt, fm, <<>>, "Unsupported node type")
    ELSE Visited(stmt, fm, <<>>, "")

\* The names of the plugins, in the order transform() hands them to babel.
PluginOrder == <<"ExtractFrontmatter", "SpecialImports", "ConvertToDynamicImports">>

\* One statement under the plugins opts: babel calls, in plugin order, the visitors
\* for the statement's node type, stops when one replaces the node, and visits the
\* replacement in turn.
AfterSpecialImports(opts, stmt, fm, a) ==
    IF a.err # "" \/ a.stmt # stmt \/ "ConvertToDynamicImports" \notin opts THEN a
    ELSE [ConvertToDynamicImports(stmt, fm) EXCEPT !.loaded = a.loaded]

VisitImport(opts, stmt, filename, fm) ==
    AfterSpecialImports(opts, stmt, fm,
                        IF "SpecialImports" \in opts THEN SpecialImports(stmt, filename, fm)
                        ELSE Visited(stmt, fm, <<>>, ""))

VisitDeclaration(opts, v) ==
    IF v.err = "" /\ v.stmt.kind = "const" /\ "ExtractFrontmatter" \in opts
    THEN [ExtractFrontmatter(v.stmt, v.fm) EXCEPT !.loaded = v.loaded]
    ELSE v

VisitStatement(opts, stmt, filename, fm) ==
    IF stmt.kind = "exportDefault" /\ "ConvertToDynamicImports" \in opts
    THEN Visited(ExportToReturn(stmt), fm, <<>>, "")
    ELSE VisitDeclaration(opts, IF stmt.kind = "import"
                                THEN VisitImport(opts, stmt, filename, fm)
                                ELSE Visited(stmt, fm, <<>>, ""))

\* What transform() holds after a statement: the code emitted so far, the
\* frontmatter, the loader calls, the error
Emit(acc, v) ==
    [code |-> Append(acc.code, v.stmt), fm |-> v.fm,
     loaded |-> acc.loaded \o v.loaded, err |-> v.err]

\* transform(state, opts, code, pathToFile): [code, fm, loaded, err]
RECURSIVE transform(_, _, _, _)
TransformRest(opts, code, pathToFile, next) ==
    IF next.err # "" THEN next ELSE transform(opts, Tail(code), pathToFile, next)

transform(opts, code, pathToFile, acc) ==
    IF code = <<>> THEN acc
    ELSE TransformRest(opts, code, pathToFile,
                       Emit(acc, VisitStatement(opts, Head(code), pathToFile, acc.fm)))

TransformStart == [code |-> <<>>, fm |-> EmptyObj, loaded |-> <<>>, err |-> ""]

-----------------------------------------------------------------------------
(* Pages (src/src/page.ts).                                                *)

\* The placeholder of a layout, and the replacement patterns of String.replace.
BodySlot == "{{body}}"

\* .txt taken for the extension of a markdown page, with the extensions known.
knownExtensionsAndTxt ==
    (".md" :> "md") @@ (".mdx" :> "md") @@ (".htm" :> "html") @@ (".html" :> "html")
    @@ (".js" :> "js") @@ (".jsx" :> "js") @@ (".ts" :> "js") @@ (".tsx" :> "js")
    @@ (".txt" :> "md")

\* knownExtensions: extension -> page type
knownExtensions ==
    (".md" :> "md") @@ (".mdx" :> "md") @@ (".htm" :> "html") @@ (".html" :> "html")
    @@ (".js" :> "js") @@ (".jsx" :> "js") @@ (".ts" :> "js") @@ (".tsx" :> "js")

\* A LambPage.
Page(path, type, frontmatter, contents) ==
    [path |-> path, slug |-> PathName(path), type |-> type,
     frontmatter |-> frontmatter, contents |-> contents]

\* The <meta name content> tags of the model's markup.
MetaTitle == "<meta name=title content=A>"

\* createHtmlPage(state, pathToPage): [err, page]
createHtmlPage(pathToPage) ==
    IF pathToPage \notin DOMAIN fsFiles
    THEN [err |-> NoSuchFile, page |-> Null]
    ELSE LET htmlContents == fsFiles[pathToPage].text
             frontmatter == IF MetaTitle \in Range(htmlContents)
                            THEN Obj(<<"title">>, <<Str("A")>>) ELSE EmptyObj
         IN  [err |-> "", page |-> Page(pathToPage, "html", frontmatter, htmlContents)]

\* compile() of @mdx-js/mdx with remark-frontmatter and remark-mdx-frontmatter: a
\* document that opens with a "---" block exports it as the binding frontmatter.
HasFrontBlock(text) == Len(text) >= 2 /\ text[1] = Dashes /\ Dashes \in Range(Tail(text))

\* The lines of the block: from the opening line to the next line of three hyphens.
FrontBlock(text) ==
    SubSeq(text, 2, (CHOOSE k \in 2..Len(text) :
                        text[k] = Dashes /\ \A j \in 2..(k - 1) : text[j] # Dashes) - 1)

MdxBody(text) ==
    IF HasFrontBlock(text)
    THEN SubSeq(text, Len(FrontBlock(text)) + 3, Len(text)) ELSE text

FrontmatterExport(obj) ==
    IF obj.t = "obj"
    THEN <<Const(Identifier("frontmatter"), valueToBabelExpr(obj), TRUE)>> ELSE <<>>

MdxCompile(text) ==
    IF HasFrontBlock(text) THEN FrontmatterExport(YamlParse(FrontBlock(text))) ELSE <<>>

\* The page made of a file once its code is transformed
Transformed(pathToPage, type, contents, transformedJs) ==
    IF transformedJs.err # "" THEN [err |-> transformedJs.err, page |-> Null]
    ELSE [err |-> "", page |-> Page(pathToPage, type, transformedJs.fm, contents)]

\* createMarkdownPage(state, pathToPage)
createMarkdownPage(pathToPage) ==
    IF pathToPage \notin DOMAIN fsFiles
    THEN [err |-> NoSuchFile, page |-> Null]
    ELSE IF ~fsFiles[pathToPage].valid THEN [err |-> CompileError, page |-> Null]
    ELSE Transformed(pathToPage, "md", MdxBody(fsFiles[pathToPage].text),
                     transform({"ExtractFrontmatter"}, MdxCompile(fsFiles[pathToPage].text),
                               pathToPage, TransformStart))

\* createJavascriptPage(state, pathToPage); the contents are the markup that the
\* component renders
createJavascriptPage(pathToPage) ==
    IF pathToPage \notin DOMAIN fsFiles
    THEN [err |-> NoSuchFile, page |-> Null]
    ELSE IF ~fsFiles[pathToPage].valid THEN [err |-> CompileError, page |-> Null]
    ELSE Transformed(pathToPage, "js", fsFiles[pathToPage].text,
                     transform({"ExtractFrontmatter", "SpecialImports",
                                "ConvertToDynamicImports"},
                               fsFiles[pathToPage].stmts, pathToPage, TransformStart))

\* knownProcessors[recognized](state.config, pathToPage)
knownProcessors(recognized, pathToPage) ==
    CASE recognized = "html" -> createHtmlPage(pathToPage)
      [] recognized = "md" -> createMarkdownPage(pathToPage)
      [] recognized = "js" -> createJavascriptPage(pathToPage)

-----------------------------------------------------------------------------
(* Scopes (src/src/scope.ts) and the creation of pages.                    *)

\* A LambScope; parent, layout: 0 for undefined; children: the entries of the
\* record, [key, scope], in insertion order.
Scope(path, parent, root) ==
    [name |-> PathName(path), path |-> path, parent |-> parent, root |-> root,
     layout |-> 0, children |-> <<>>, pages |-> <<>>]

layoutNames ==
    << <<"_", "layout", ".html">>, <<"_", "layout", ".js">>, <<"_", "layout", ".jsx">>,
       <<"_", "layout", ".ts">>, <<"_", "layout", ".tsx">> >>

\* children[key] = scope
SetChild(children, key, scope) ==
    IF \E i \in 1..Len(children) : children[i].key = key
    THEN [i \in 1..Len(children) |->
             IF children[i].key = key THEN [key |-> key, scope |-> scope] ELSE children[i]]
    ELSE Append(children, [key |-> key, scope |-> scope])

RECURSIVE createPage(_, _, _)
RECURSIVE getScope(_, _)
RECURSIVE createScope(_, _)
RECURSIVE LayoutLoop(_, _, _)

\* createPage: `return (state.filecache[pathToPage] = await knownProcessors[...](...))`
CachePage(s, pathToPage, made) ==
    IF made.err # "" THEN Throw(s, made.err)
    ELSE Return([s EXCEPT !.pages = Append(@, made.page),
                          !.filecache = Put(@, pathToPage, Len(s.pages) + 1)],
                Len(s.pages) + 1)

\* createPage, once the scope is known
ProcessPage(scope, pathToPage) ==
    IF scope.err # "" THEN Throw(scope.s, scope.err)
    ELSE IF PathExt(pathToPage) \notin DOMAIN knownExtensions
    THEN Throw(scope.s, UnrecognizedExtension)
    ELSE CachePage(scope.s, pathToPage,
                   knownProcessors(knownExtensions[PathExt(pathToPage)], pathToPage))

\* createPage(state, pathToPage, useThisScope); useThisScope = 0: undefined
createPage(s, pathToPage, useThisScope) ==
    ProcessPage(IF useThisScope = 0 THEN getScope(s, PathDir(pathToPage))
                ELSE Return(s, useThisScope),
                pathToPage)

\* getPage, once the scope is known
CreateInScope(scope, pathToPage) ==
    IF scope.err # "" THEN Throw(scope.s, scope.err)
    ELSE createPage(scope.s, pathToPage, scope.ret)

\* getPage(state, pathToPage)
getPage(s, pathToPage) ==
    IF pathToPage \in DOMAIN s.filecache THEN Return(s, s.filecache[pathToPage])
    ELSE CreateInScope(getScope(s, PathDir(pathToPage)), pathToPage)

\* The scope made without the parent scope that was looked up.
CreateWithoutParent(parentScope, pathToScope) ==
    IF parentScope.err # "" THEN Throw(parentScope.s, parentScope.err)
    ELSE createScope(parentScope.s, [path |-> pathToScope, parent |-> 0, root |-> 0])

\* getScope, once the parent scope is known
CreateInParent(parentScope, pathToScope) ==
    IF parentScope.err # "" THEN Throw(parentScope.s, parentScope.err)
    ELSE createScope(parentScope.s,
                     [path |-> pathToScope, parent |-> parentScope.ret,
                      root |-> parentScope.s.scopes[parentScope.ret].root])

\* getScope(state, pathToScope); the lookup of the parent of "/" never returns
getScope(s, pathToScope) ==
    IF pathToScope \in DOMAIN s.scopecache THEN Return(s, s.scopecache[pathToScope])
    ELSE IF PathDir(pathToScope) = pathToScope THEN Throw(s, StackOverflow)
    ELSE CreateInParent(getScope(s, PathDir(pathToScope)), pathToScope)

\* The layout set, and the names that follow in layoutNames left aside.
KeepFirstLayout(made, id, i) ==
    IF made.err # "" THEN Throw(made.s, made.err)
    ELSE Return([made.s EXCEPT !.scopes[id].layout = made.ret], id)

\* createScope: `partialScope.layout = await createPage(state, layoutPath)`
SetLayout(made, id, i) ==
    IF made.err # "" THEN Throw(made.s, made.err)
    ELSE LayoutLoop([made.s EXCEPT !.scopes[id].layout = made.ret], id, i + 1)

\* The loop over layoutNames of createScope, from the i-th name on, for scope id.
LayoutLoop(s, id, i) ==
    IF i > Len(layoutNames) THEN Return(s, id)
    ELSE IF ~exists(PathJoin(s.scopes[id].path, layoutNames[i])) THEN LayoutLoop(s, id, i + 1)
    ELSE SetLayout(createPage(s, PathJoin(s.scopes[id].path, layoutNames[i]), 0), id, i)

\* The root scope, taken for complete without its layout.
RootWithoutLayout(laid, id) ==
    IF laid.err # "" THEN Throw(laid.s, laid.err) ELSE Return(laid.s, id)

\* createScope: the root must have a layout; the return
CheckRootLayout(laid, id) ==
    IF laid.err # "" THEN Throw(laid.s, laid.err)
    ELSE IF laid.s.scopes[id].root = id /\ laid.s.scopes[id].layout = 0
    THEN Throw(laid.s, RootLayoutMissing)
    ELSE Return(laid.s, id)

\* The partial scope, not put in the cache before its layout is made.
NotCached(s, opts) ==
    [s EXCEPT !.scopes = Append(@, Scope(opts.path, opts.parent,
                                         IF opts.root = 0 THEN Len(s.scopes) + 1
                                         ELSE opts.root))]

\* createScope: the partial scope, put in the cache under its path
CachePartial(s, opts) ==
    [s EXCEPT !.scopes = Append(@, Scope(opts.path, opts.parent,
                                         IF opts.root = 0 THEN Len(s.scopes) + 1
                                         ELSE opts.root)),
              !.scopecache = Put(@, opts.path, Len(s.scopes) + 1)]

\* createScope(state, opts); opts.root, opts.parent = 0: undefined
createScope(s, opts) ==
    CheckRootLayout(LayoutLoop(CachePartial(s, opts), Len(s.scopes) + 1, 1),
                    Len(s.scopes) + 1)

-----------------------------------------------------------------------------
(* Rendering (src/src/page.ts).                                            *)

\* htmlBody = undefined
NoBody == <<"undefined">>

\* The replacement patterns of String.prototype.replace in a replacement string:
\* "$$" is "$", "$&" the match, "$" with a grave accent (here "$<") the text before
\* the match, "$'" the text after it.
Replacement(body, match, before, after) ==
    Concat([i \in 1..Len(body) |->
               CASE body[i] = "$$" -> <<"$">>
                 [] body[i] = "$&" -> <<match>>
                 [] body[i] = "$<" -> before
                 [] body[i] = "$'" -> after
                 [] OTHER -> <<body[i]>>])

\* contents.replace("{{body}}", htmlBody): the first occurrence only
ReplaceBody(contents, htmlBody) ==
    IF BodySlot \notin Range(contents) THEN contents
    ELSE LET i == CHOOSE k \in 1..Len(contents) :
                      contents[k] = BodySlot /\ \A j \in 1..(k - 1) : contents[j] # BodySlot
             before == SubSeq(contents, 1, i - 1)
             after == SubSeq(contents, i + 1, Len(contents))
         IN  before \o Replacement(htmlBody, BodySlot, before, after) \o after

\* renderHtmlPage(state, page, params, htmlBody)
renderHtmlPage(page, htmlBody) ==
    IF htmlBody = NoBody THEN page.contents ELSE ReplaceBody(page.contents, htmlBody)

\* renderMarkdownPage(state, page, params, htmlBody): `if (htmlBody)` is false for ""
renderMarkdownPage(page, htmlBody) ==
    IF htmlBody # NoBody /\ htmlBody # <<>>
    THEN ReplaceBody(page.contents, htmlBody) ELSE page.contents

\* The place of props.children in the markup of a component.
ChildrenSlot == "{children}"

\* renderJavascriptPage(state, page, params, htmlBody): the component renders its
\* markup around children, the parsed htmlBody
renderJavascriptPage(page, htmlBody) ==
    Concat([i \in 1..Len(page.contents) |->
               IF page.contents[i] = ChildrenSlot
               THEN (IF htmlBody = NoBody THEN <<>> ELSE htmlBody)
               ELSE <<page.contents[i]>>])

\* renderPage(state, page, params, htmlBody)
renderPage(page, htmlBody) ==
    CASE page.type = "html" -> renderHtmlPage(page, htmlBody)
      [] page.type = "md" -> renderMarkdownPage(page, htmlBody)
      [] page.type = "js" -> renderJavascriptPage(page, htmlBody)

\* The layout of a scope left out of what is written.
SkipLayout(s, scope, contents) == contents

\* renderScope: `if (scope.layout) contents = await renderPage(state, scope.layout,
\* {}, contents)`, for the scope of the page and for each currentParent
WrapLayout(s, scope, contents) ==
    IF s.scopes[scope].layout # 0
    THEN renderPage(s.pages[s.scopes[scope].layout], contents)
    ELSE contents

\* The while loop of renderScope: the layouts from scope currentParent upwards
RECURSIVE WrapParents(_, _, _)
WrapParents(s, currentParent, finalContents) ==
    IF currentParent = 0 THEN finalContents
    ELSE WrapParents(s, s.scopes[currentParent].parent,
                     WrapLayout(s, currentParent, finalContents))

\* The body of renderScope's loop over the pages: what it writes for the page
RenderedPage(s, scope, page) ==
    WrapParents(s, s.scopes[scope].parent,
                WrapLayout(s, scope, renderPage(s.pages[page], NoBody)))

\* `${page.slug}.html`
OutputName(page) == Append(page.slug, ".html")

-----------------------------------------------------------------------------
(* The projects of the model: a chain of directories below the project     *)
(* directory, each with or without a layout and a file of unknown type.    *)

DirNames == << <<"blog">>, <<"drafts">>, <<"jan">>, <<"week">>, <<"day">> >>

LayoutHtml == <<"_", "layout", ".html">>

IndexMd == <<"index", ".md">>

NotesTxt == <<"notes", ".txt">>

\* lamb.config.json, which main() looks for in the project directory
ConfigJson == <<"lamb", ".config", ".json">>

\* The directory at depth d of the chain (0: the project directory).
DirAt(d) == Cwd \o [i \in 1..d |-> DirNames[i]]

Shapes == [layout : BOOLEAN, bad : BOOLEAN]

\* A project: the shapes of its directories, from the project directory down.
Projects == UNION {[1..k -> Shapes] : k \in 1..(MaxDepth + 1)}

\* What lamb.config.json holds, if it is there.
Configs == {"absent", "invalid", "noOutdir", "outdir"}

\* The listing of the directory at depth d, in readdir's (alphabetical) order.
Listing(project, cfg, d) ==
    (IF project[d + 1].layout THEN <<LayoutHtml>> ELSE <<>>)
    \o (IF d + 1 < Len(project) THEN <<DirNames[d + 1]>> ELSE <<>>)
    \o <<IndexMd>>
    \o (IF d = 0 /\ cfg # "absent" THEN <<ConfigJson>> ELSE <<>>)
    \o (IF project[d + 1].bad THEN <<NotesTxt>> ELSE <<>>)

\* The text of a file of the project, by its name and the depth of its directory.
TextOf(name, cfg, d) ==
    CASE name = LayoutHtml -> <<"<L" \o ToString(d) \o ">", BodySlot, "</L" \o ToString(d) \o ">">>
      [] name = IndexMd -> <<"page" \o ToString(d)>>
      [] name = NotesTxt -> <<"notes">>
      [] name = ConfigJson -> <<cfg>>

ProjectDirs(project, cfg) ==
    [p \in {FsRoot} \cup {DirAt(d) : d \in 0..(Len(project) - 1)} |->
        IF p = FsRoot THEN <<Last(Cwd)>> ELSE Listing(project, cfg, Len(p) - Len(Cwd))]

ProjectFiles(project, cfg) ==
    [p \in UNION {{PathJoin(DirAt(d), name) :
                      name \in Range(Listing(project, cfg, d)) \ Range(DirNames)} :
                  d \in 0..(Len(project) - 1)} |->
        File(TextOf(PathBase(p), cfg, Len(p) - Len(Cwd) - 1), <<>>, TRUE)]

\* The outdir that lamb.config.json names, when it names one.
CustomOutdir == <<<<"/">>, <<"dist">>>>

\* path.join(cwd, "out")
DefaultOutdir == PathJoin(Cwd, <<"out">>)

-----------------------------------------------------------------------------
(* main() (src/src/index.ts) and the tasks it starts.                      *)

\* A call of createScopeChildren(state, scope, recursive); awaited: by its caller.
Task(scope, recursive, awaited) ==
    [scope |-> scope, recursive |-> recursive, awaited |-> awaited,
     pc |-> "readdir", todo |-> <<>>, error |-> ""]

\* A call of renderScope(state, scope, outdir): the next page, and the entries of
\* scope.children still to render (phase "children").
Frame(scope, dir) ==
    [scope |-> scope, outdir |-> dir, i |-> 1, phase |-> "pages", kids |-> <<>>]

\* An error raised: by main (task 0) or by a task; handled: it reached main's catch.
Error(task, error, handled) == [task |-> task, error |-> error, handled |-> handled]

\* The entries of a listing, the reserved ones among them.
KeepReserved(todo) == todo

\* The entries of a listing from the first that does not start with "_".
RECURSIVE SkipReserved(_)
SkipReserved(todo) ==
    IF todo # <<>> /\ StartsWithUnderscore(Head(todo)) THEN SkipReserved(Tail(todo))
    ELSE todo

Running == exitCode = -1

InitBuild ==
    /\ scopes = <<>> /\ pages = <<>>
    /\ scopecache = EmptyMap /\ filecache = EmptyMap
    /\ pc = "start" /\ outdir = NoPath
    /\ tasks = <<>> /\ frames = <<>> /\ errors = <<>>
    /\ exitCode = -1 /\ written = <<>>

\* lamb is about to be started in the directory of one of the projects
InitProject(projects, configs) ==
    /\ cfgFile \in configs
    /\ \E project \in projects :
          /\ fsDirs = ProjectDirs(project, cfgFile)
          /\ fsFiles = ProjectFiles(project, cfgFile)
    /\ InitBuild
    /\ run = 1 /\ firstOut = EmptyMap
    /\ calls = 0 /\ last = <<>>

Init == InitProject(Projects, Configs)

SetState(s) ==
    /\ scopes' = s.scopes
    /\ pages' = s.pages
    /\ scopecache' = s.scopecache
    /\ filecache' = s.filecache

\* main(), to the creation of the initial state: the configuration
LoadConfig ==
    /\ Running /\ pc = "start"
    /\ IF exists(PathJoin(Cwd, ConfigJson)) /\ cfgFile = "invalid"
       THEN /\ pc' = "failed"
            /\ errors' = Append(errors, Error(0, InvalidConfig, TRUE))
            /\ UNCHANGED outdir
       ELSE /\ pc' = "root"
            /\ outdir' = CASE ~exists(PathJoin(Cwd, ConfigJson)) -> DefaultOutdir
                           [] cfgFile = "outdir" -> CustomOutdir
                           [] cfgFile = "noOutdir" -> NoPath
            /\ UNCHANGED errors
    /\ UNCHANGED <<fsDirs, fsFiles, cfgFile, scopes, pages, scopecache, filecache,
                   tasks, frames, exitCode, written, run, firstOut, calls, last>>

\* main(): what follows `await createScope(...)`
RootCreated(rootScope) ==
    /\ SetState(rootScope.s)
    /\ IF rootScope.err # ""
       THEN /\ pc' = "failed"
            /\ errors' = Append(errors, Error(0, rootScope.err, TRUE))
            /\ UNCHANGED tasks
       ELSE /\ pc' = "children"
            /\ tasks' = Append(tasks, Task(rootScope.ret, TRUE, TRUE))
            /\ UNCHANGED errors

\* main(): createScope of the root, and the call of createScopeChildren
CreateRoot ==
    /\ Running /\ pc = "root"
    /\ RootCreated(createScope(State, [path |-> Cwd, root |-> 0, parent |-> 0]))
    /\ UNCHANGED <<fsDirs, fsFiles, cfgFile, outdir, frames, exitCode, written,
                   run, firstOut, calls, last>>

\* createScopeChildren, to the return of fs.readdir
TaskReaddir(t) ==
    /\ Running /\ tasks[t].pc = "readdir"
    /\ LET dir == scopes[tasks[t].scope].path
           todo == SkipReserved(readdir(dir))
       IN  IF dir \notin DOMAIN fsDirs
           THEN /\ tasks' = [tasks EXCEPT ![t].pc = "failed", ![t].error = NoSuchFile]
                /\ errors' = IF tasks[t].awaited THEN errors
                             ELSE Append(errors, Error(t, NoSuchFile, FALSE))
           ELSE /\ tasks' = [tasks EXCEPT ![t].todo = todo,
                                          ![t].pc = IF todo = <<>> THEN "done" ELSE "loop"]
                /\ UNCHANGED errors
    /\ UNCHANGED <<fsDirs, fsFiles, cfgFile, scopes, pages, scopecache, filecache, pc,
                   outdir, frames, exitCode, written, run, firstOut, calls, last>>

\* createScopeChildren: `scope.children[parsed.name] = ...`, `scope.pages.push(...)`
Linked(made, scope, fullpath) ==
    IF isDirectory(fullpath)
    THEN [made.s EXCEPT !.scopes[scope].children = SetChild(@, PathName(fullpath), made.ret)]
    ELSE [made.s EXCEPT !.scopes[scope].pages = Append(@, made.ret)]

\* The call of createScopeChildren for the scope just made, which nobody awaits
Recurse(turned, task, made, fullpath) ==
    IF isDirectory(fullpath) /\ task.recursive
    THEN Append(turned, Task(made.ret, task.recursive, FALSE))
    ELSE turned

\* createScopeChildren: the turn of the loop, once the scope or the page is made
EntryMade(t, fullpath, rest, made) ==
    IF made.err # ""
    THEN /\ SetState(made.s)
         /\ tasks' = [tasks EXCEPT ![t].pc = "failed", ![t].error = made.err]
         /\ errors' = IF tasks[t].awaited THEN errors
                      ELSE Append(errors, Error(t, made.err, FALSE))
    ELSE /\ SetState(Linked(made, tasks[t].scope, fullpath))
         /\ tasks' = Recurse([tasks EXCEPT ![t].todo = rest,
                                           ![t].pc = IF rest = <<>> THEN "done" ELSE "loop"],
                             tasks[t], made, fullpath)
         /\ UNCHANGED errors

\* createScopeChildren: the scope or the page of an entry
MakeEntry(s, scope, fullpath) ==
    IF isDirectory(fullpath)
    THEN createScope(s, [path |-> fullpath, root |-> s.scopes[scope].root, parent |-> scope])
    ELSE createPage(s, fullpath, scope)

\* createScopeChildren: one turn of the loop, for the next entry that does not start
\* with "_"; the recursive call is started and not awaited
TaskEntry(t) ==
    /\ Running /\ tasks[t].pc = "loop"
    /\ EntryMade(t, PathJoin(scopes[tasks[t].scope].path, Head(tasks[t].todo)),
                 SkipReserved(Tail(tasks[t].todo)),
                 MakeEntry(State, tasks[t].scope,
                           PathJoin(scopes[tasks[t].scope].path, Head(tasks[t].todo))))
    /\ UNCHANGED <<fsDirs, fsFiles, cfgFile, pc, outdir, frames, exitCode, written,
                   run, firstOut, calls, last>>

\* main(): `await createScopeChildren(initialState, rootScope, true)` returns or throws
AwaitChildren ==
    /\ Running /\ pc = "children"
    /\ \/ /\ tasks[1].pc = "done"
          /\ pc' = "mkdir"
          /\ UNCHANGED errors
       \/ /\ tasks[1].pc = "failed"
          /\ pc' = "failed"
          /\ errors' = Append(errors, Error(0, tasks[1].error, TRUE))
    /\ UNCHANGED <<fsDirs, fsFiles, cfgFile, scopes, pages, scopecache, filecache,
                   outdir, tasks, frames, exitCode, written, run, firstOut, calls, last>>

\* main(): the creation of outdir and the call of renderScope
MkdirOutdir ==
    /\ Running /\ pc = "mkdir"
    /\ IF outdir = NoPath
       THEN /\ pc' = "failed"
            /\ errors' = Append(errors, Error(0, MkdirUndefined, TRUE))
            /\ UNCHANGED <<fsDirs, frames>>
       ELSE /\ pc' = "render"
            /\ fsDirs' = IF exists(outdir) THEN fsDirs ELSE MkdirIn(fsDirs, outdir)
            /\ frames' = <<Frame(scopecache[Cwd], outdir)>>
            /\ UNCHANGED errors
    /\ UNCHANGED <<fsFiles, cfgFile, scopes, pages, scopecache, filecache, outdir,
                   tasks, exitCode, written, run, firstOut, calls, last>>

Top == frames[Len(frames)]

\* renderScope: fs.writeFile(path.join(outdir, `${page.slug}.html`), finalContents)
WriteFile(file, page, scope, finalContents) ==
    /\ fsFiles' = Put(fsFiles, file, File(finalContents, <<>>, TRUE))
    /\ fsDirs' = ListFileIn(fsDirs, file, fsFiles)
    /\ written' = Append(written, [path |-> file, text |-> finalContents,
                                   page |-> page, scope |-> scope])

\* renderScope: one turn of the loop over scope.pages, to the end of fs.writeFile
RenderPage ==
    /\ Running /\ pc = "render" /\ frames # <<>>
    /\ Top.phase = "pages" /\ Top.i <= Len(scopes[Top.scope].pages)
    /\ WriteFile(PathJoin(Top.outdir, OutputName(pages[scopes[Top.scope].pages[Top.i]])),
                 scopes[Top.scope].pages[Top.i], Top.scope,
                 RenderedPage(State, Top.scope, scopes[Top.scope].pages[Top.i]))
    /\ frames' = [frames EXCEPT ![Len(frames)].i = @ + 1]
    /\ UNCHANGED <<cfgFile, scopes, pages, scopecache, filecache, pc, outdir, tasks,
                   errors, exitCode, run, firstOut, calls, last>>

\* renderScope: the loop over the pages ends, Object.entries(scope.children) is taken
RenderPagesDone ==
    /\ Running /\ pc = "render" /\ frames # <<>>
    /\ Top.phase = "pages" /\ Top.i > Len(scopes[Top.scope].pages)
    /\ frames' = [frames EXCEPT ![Len(frames)].phase = "children",
                                ![Len(frames)].kids = scopes[Top.scope].children]
    /\ UNCHANGED <<fsDirs, fsFiles, cfgFile, scopes, pages, scopecache, filecache, pc,
                   outdir, tasks, errors, exitCode, written, run, firstOut, calls, last>>

\* renderScope: one turn of the loop over the children, to the call of renderScope.
\* A build is followed as far as MaxDepth directories below outdir, which is as
\* deep as a project goes.
RenderChild ==
    /\ Running /\ pc = "render" /\ frames # <<>>
    /\ Top.phase = "children" /\ Top.kids # <<>>
    /\ Len(Top.outdir) < Len(outdir) + MaxDepth
    /\ LET subscopeOutdir == PathJoin(Top.outdir, Head(Top.kids).key)
       IN  /\ fsDirs' = IF exists(subscopeOutdir) THEN fsDirs
                        ELSE MkdirIn(fsDirs, subscopeOutdir)
           /\ frames' = Append([frames EXCEPT ![Len(frames)].kids = Tail(@)],
                               Frame(Head(Top.kids).scope, subscopeOutdir))
    /\ UNCHANGED <<fsFiles, cfgFile, scopes, pages, scopecache, filecache, pc, outdir,
                   tasks, errors, exitCode, written, run, firstOut, calls, last>>

\* renderScope returns; main() returns when the outermost call does
RenderReturn ==
    /\ Running /\ pc = "render" /\ frames # <<>>
    /\ Top.phase = "children" /\ Top.kids = <<>>
    /\ frames' = Front(frames)
    /\ pc' = IF Len(frames) = 1 THEN "done" ELSE pc
    /\ UNCHANGED <<fsDirs, fsFiles, cfgFile, scopes, pages, scopecache, filecache,
                   outdir, tasks, errors, exitCode, written, run, firstOut, calls, last>>

\* The rejection of a call nobody awaits is unhandled: node ends the process with
\* status 1 (or, by its version and flags, only warns, and the build goes on).
Crash ==
    /\ Running
    /\ \E i \in 1..Len(errors) : ~errors[i].handled
    /\ exitCode' = 1
    /\ UNCHANGED <<fsDirs, fsFiles, cfgFile, scopes, pages, scopecache, filecache, pc,
                   outdir, tasks, frames, errors, written, run, firstOut, calls, last>>

\* main().catch(console.error): the process ends, with status 0, when main() has
\* returned or thrown and nothing is left in flight
Exit ==
    /\ Running /\ pc \in {"done", "failed"}
    /\ \A t \in 1..Len(tasks) : tasks[t].pc \in {"done", "failed"}
    /\ exitCode' = 0
    /\ UNCHANGED <<fsDirs, fsFiles, cfgFile, scopes, pages, scopecache, filecache, pc,
                   outdir, tasks, frames, errors, written, run, firstOut, calls, last>>

Next ==
    \/ LoadConfig
    \/ CreateRoot
    \/ \E t \in 1..Len(tasks) : TaskReaddir(t)
    \/ \E t \in 1..Len(tasks) : TaskEntry(t)
    \/ AwaitChildren
    \/ MkdirOutdir
    \/ RenderPage
    \/ RenderPagesDone
    \/ RenderChild
    \/ RenderReturn
    \/ Crash
    \/ Exit

Spec == Init /\ [][Next]_vars

-----------------------------------------------------------------------------
(* The build run a second time on the project (specification SpecRebuild).  *)

\* The pages of the project: the files below the project directory, outside outdir,
\* with no name that starts with "_" on their way.
SourcePages ==
    {p \in DOMAIN fsFiles :
        /\ IsPrefix(Cwd, p)
        /\ ~IsPrefix(outdir, p)
        /\ \A i \in (Len(Cwd) + 1)..Len(p) : ~StartsWithUnderscore(p[i])}

\* outdir/<path of the directory relative to the root>/name.html
OutputOf(p) ==
    outdir \o SubSeq(p, Len(Cwd) + 1, Len(p) - 1) \o <<Append(PathName(p), ".html")>>

\* The files under outdir, with their texts.
OutputFiles ==
    [p \in {q \in DOMAIN fsFiles : outdir # NoPath /\ IsPrefix(outdir, q)} |->
        fsFiles[p].text]

\* lamb is started again, in the same directory, once the first run has ended
Rebuild ==
    /\ run = 1 /\ exitCode # -1
    /\ run' = 2
    /\ firstOut' = [files |-> OutputFiles, errors |-> errors, exitCode |-> exitCode,
                    complete |-> \A p \in SourcePages : OutputOf(p) \in DOMAIN fsFiles]
    /\ scopes' = <<>> /\ pages' = <<>>
    /\ scopecache' = EmptyMap /\ filecache' = EmptyMap
    /\ pc' = "start" /\ outdir' = NoPath
    /\ tasks' = <<>> /\ frames' = <<>> /\ errors' = <<>>
    /\ exitCode' = -1 /\ written' = <<>>
    /\ UNCHANGED <<fsDirs, fsFiles, cfgFile, calls, last>>

NextRebuild ==
    \/ Next
    \/ Rebuild

SpecRebuild == Init /\ [][NextRebuild]_vars

-----------------------------------------------------------------------------
(* The operations on scopes and pages, called in any order on one state     *)
(* (specification SpecCalls).                                               *)

InitCalls == InitProject(Projects, {"absent"})

\* The directories and the files of the project.
Directories == {p \in DOMAIN fsDirs : IsPrefix(Cwd, p)}

Files == {p \in DOMAIN fsFiles : IsPrefix(Cwd, p)}

\* A call returns or throws: res; fresh: the objects it found in the heaps
Called(op, path, s, res) ==
    /\ SetState(res.s)
    /\ calls' = calls + 1
    /\ last' = [op |-> op, path |-> path, ret |-> res.ret, err |-> res.err,
                scopes |-> Len(s.scopes), pages |-> Len(s.pages),
                cached |-> path \in DOMAIN s.scopecache]
    /\ UNCHANGED <<fsDirs, fsFiles, cfgFile, pc, outdir, tasks, frames, errors,
                   exitCode, written, run, firstOut>>

\* The options for a scope at path: parent and root as the cache gives them
OptionsFor(s, path) ==
    IF PathDir(path) \in DOMAIN s.scopecache
    THEN [path |-> path, parent |-> s.scopecache[PathDir(path)],
          root |-> s.scopes[s.scopecache[PathDir(path)]].root]
    ELSE [path |-> path, parent |-> 0, root |-> 0]

CallCreateScope ==
    /\ calls < MaxCalls
    /\ \E path \in Directories :
          Called("createScope", path, State, createScope(State, OptionsFor(State, path)))

CallGetScope ==
    /\ calls < MaxCalls
    /\ \E path \in Directories :
          Called("getScope", path, State, getScope(State, path))

CallCreatePage ==
    /\ calls < MaxCalls
    /\ \E path \in Files :
          Called("createPage", path, State, createPage(State, path, 0))

CallGetPage ==
    /\ calls < MaxCalls
    /\ \E path \in Files :
          Called("getPage", path, State, getPage(State, path))

\* createScopeChildren(state, scope, recursive) is called, and awaited
CallCreateScopeChildren ==
    /\ calls < MaxCalls
    /\ \E scope \in 1..Len(scopes), recursive \in BOOLEAN :
          /\ tasks' = Append(tasks, Task(scope, recursive, TRUE))
          /\ calls' = calls + 1
          /\ last' = [op |-> "createScopeChildren", path |-> scopes[scope].path,
                      ret |-> 0, err |-> "", scopes |-> Len(scopes),
                      pages |-> Len(pages), cached |-> TRUE]
    /\ UNCHANGED <<fsDirs, fsFiles, cfgFile, scopes, pages, scopecache, filecache, pc,
                   outdir, frames, errors, exitCode, written, run, firstOut>>

NextCalls ==
    \/ CallCreateScope
    \/ CallGetScope
    \/ CallCreatePage
    \/ CallGetPage
    \/ CallCreateScopeChildren
    \/ \E t \in 1..Len(tasks) : TaskReaddir(t)
    \/ \E t \in 1..Len(tasks) : TaskEntry(t)

SpecCalls == InitCalls /\ [][NextCalls]_vars

-----------------------------------------------------------------------------
(* getScope called on the paths of a project before and after the scope of   *)
(* the project directory is made (specification SpecLookup).                 *)

\* The paths that are looked up: the project directory and the chain of
\* directories below it, one deeper than a project goes (the directory of a
\* scope need not exist).
LookupPaths == {DirAt(d) : d \in 0..(MaxDepth + 1)}

\* main(): `await createScope(initialState, { path: cwd })`
CallCreateRoot ==
    /\ calls < MaxCalls
    /\ Called("createScope", Cwd, State,
              createScope(State, [path |-> Cwd, root |-> 0, parent |-> 0]))

\* await getScope(state, pathToScope)
CallLookup ==
    /\ calls < MaxCalls
    /\ \E path \in LookupPaths :
          Called("getScope", path, State, getScope(State, path))

NextLookup == CallCreateRoot \/ CallLookup

SpecLookup == InitCalls /\ [][NextLookup]_vars

-----------------------------------------------------------------------------
(* The transform of a component that imports markdown files (specification *)
(* SpecTransform).                                                         *)

PostNames == << <<"a", ".md">>, <<"b", ".md">>, <<"c", ".md">>, <<"d", ".md">> >>

\* The texts of a markdown file: with a frontmatter block, without one, with an
\* empty one, and with one line of three hyphens below a line that ends in them.
PostTexts == {<<Dashes, "title: A\n", Dashes, "body">>,
              <<Dashes, "title: B\n", "date: D\n", Dashes, "body">>,
              <<"body">>,
              <<Dashes, Dashes, "body">>,
              <<IntroDashes, "title: A\n", Dashes, "body">>}

\* The directory of the component, and the directory of the files it imports.
ComponentDir == PathJoin(Cwd, <<"blog">>)

PostsDir == PathJoin(ComponentDir, <<"posts">>)

ListJsx == PathJoin(ComponentDir, <<"list", ".jsx">>)

\* The import paths of the component.
ImportPaths == {<< <<".">>, <<"posts">>, <<"*", ".md">> >>,
                << <<"posts">>, <<"*", ".md">> >>,
                << <<".">>, <<"posts">>, <<"a", ".md">> >>,
                << <<".">>, <<"posts">>, <<"*", ".txt">> >>,
                << <<"preact">> >>}

\* The specifiers of the import: of a markdown import the default one; of the import
\* of a package a named one, the default one, two named ones, or a namespace.
SpecifiersOf(importPath) ==
    IF importPath # << <<"preact">> >>
    THEN {<<Specifier("default", "", "posts")>>}
    ELSE {<<Specifier("named", "h", "posts")>>,
          <<Specifier("default", "", "preact")>>,
          <<Specifier("named", "h", "h"), Specifier("named", "render", "draw")>>,
          <<Specifier("namespace", "", "all")>>}

\* The declarations of a component, if it has one: frontmatter as an object of
\* literals at the top level, the same inside the component's function, the
\* result of a call, and another name.
FrontmatterLiteral == valueToBabelExpr(Obj(<<"title">>, <<Str("A")>>))

Declarations ==
    {<<>>,
     <<Const(Identifier("frontmatter"), FrontmatterLiteral, TRUE)>>,
     <<Const(Identifier("frontmatter"), FrontmatterLiteral, FALSE)>>,
     <<Const(Identifier("frontmatter"), [type |-> "CallExpression"], TRUE)>>,
     <<Const(Identifier("meta"), FrontmatterLiteral, TRUE)>>}

\* import <specifiers> from "<importPath>"; <declared>; export default PageComponent
ComponentOf(importPath, specifiers, declared) ==
    <<Import(importPath, specifiers)>> \o declared
    \o <<ExportDefault(Identifier("PageComponent"))>>

\* The file system: posts, a subset of the first MaxPosts names with their texts.
\* A directory posts with one markdown file lies in the project directory too, and
\* with a second one of the name a.md when atCwd.
CwdPosts(atCwd) == IF atCwd THEN << PostNames[1], <<"z", ".md">> >> ELSE << <<"z", ".md">> >>

TransformDirs(posts, atCwd) ==
    (FsRoot :> <<Last(Cwd)>>)
    @@ (Cwd :> << <<"blog">>, <<"posts">> >>)
    @@ (PathJoin(Cwd, <<"posts">>) :> CwdPosts(atCwd))
    @@ (ComponentDir :> << <<"list", ".jsx">>, <<"posts">> >>)
    @@ (PostsDir :> SelectSeq(PostNames, LAMBDA n : n \in DOMAIN posts) \o <<NotesTxt>>)

TransformFiles(posts, atCwd, component) ==
    [p \in {PathJoin(PostsDir, n) : n \in DOMAIN posts} |->
        File(posts[PathBase(p)], <<>>, TRUE)]
    @@ (PathJoin(PostsDir, NotesTxt) :> File(<<"notes">>, <<>>, TRUE))
    @@ [p \in {PathJoin(PathJoin(Cwd, <<"posts">>), n) : n \in Range(CwdPosts(atCwd))} |->
           File(<<Dashes, "date: D\n", Dashes, "body">>, <<>>, TRUE)]
    @@ (ListJsx :> File(<<"<ul>", "</ul>">>, component, TRUE))

InitTransform ==
    /\ \E names \in SUBSET {PostNames[i] : i \in 1..MaxPosts} :
       \E posts \in [names -> PostTexts] :
       \E importPath \in ImportPaths :
       \E specifiers \in SpecifiersOf(importPath) :
       \E atCwd \in BOOLEAN :
       \E declared \in Declarations :
          /\ fsDirs = TransformDirs(posts, atCwd)
          /\ fsFiles = TransformFiles(posts, atCwd,
                                      ComponentOf(importPath, specifiers, declared))
    /\ cfgFile = "absent"
    /\ scopes = <<>> /\ pages = <<>>
    /\ scopecache = EmptyMap /\ filecache = EmptyMap
    /\ pc = "transform" /\ outdir = NoPath
    /\ tasks = <<>> /\ frames = <<>> /\ errors = <<>>
    /\ exitCode = -1 /\ written = <<>>
    /\ run = 1 /\ firstOut = EmptyMap
    /\ calls = 0 /\ last = <<>>

\* createJavascriptPage: `await transform(state, { ExtractFrontmatter, SpecialImports,
\* ConvertToDynamicImports }, code, pathToPage)`
Transform ==
    /\ pc = "transform"
    /\ pc' = "transformed"
    /\ last' = [op |-> "transform", path |-> ListJsx,
                result |-> transform({"ExtractFrontmatter", "SpecialImports",
                                      "ConvertToDynamicImports"},
                                     fsFiles[ListJsx].stmts, ListJsx, TransformStart)]
    /\ UNCHANGED <<fsDirs, fsFiles, cfgFile, scopes, pages, scopecache, filecache,
                   outdir, tasks, frames, errors, exitCode, written, run, firstOut,
                   calls>>

\* transform(state, { SpecialImports }, code, pathToFile): the special-import pass
\* alone
TransformSpecial ==
    /\ pc = "transform"
    /\ pc' = "transformed"
    /\ last' = [op |-> "SpecialImports", path |-> ListJsx,
                result |-> transform({"SpecialImports"}, fsFiles[ListJsx].stmts,
                                     ListJsx, TransformStart)]
    /\ UNCHANGED <<fsDirs, fsFiles, cfgFile, scopes, pages, scopecache, filecache,
                   outdir, tasks, frames, errors, exitCode, written, run, firstOut,
                   calls>>

NextTransform == Transform \/ TransformSpecial

SpecTransform == InitTransform /\ [][NextTransform]_vars

-----------------------------------------------------------------------------
(* The build of a project directory with several layout files, reserved     *)
(* entries and directories side by side (specification SpecEntries).        *)

\* The directories of the project directory: two of them have a dot in their names.
SiblingNames == << <<"docs">>, <<"v1", ".2">>, <<"v1", ".3">> >>

\* The reserved entries: a directory and a markdown file.
DraftsDir == <<"_", "drafts">>

HiddenMd == <<"_", "hidden", ".md">>

\* A page of the name of index.md and of another type.
IndexHtml == <<"index", ".html">>

\* A project: the layout files of the project directory and those of each directory
\* below it (indices of layoutNames), the directories, whether the reserved entries
\* are there, where a file of unknown type lies, and whether index.html lies next
\* to index.md.  The projects vary in their layout files, with one directory, or
\* in their other entries, with one layout.
EntryProjects ==
    [layouts : SUBSET (1..Len(layoutNames)), inner : {{}, {2, 4}},
     dirs : {{1}}, reserved : {FALSE}, bad : {"nowhere"}, twin : {FALSE}]
    \cup
    [layouts : {{1}}, inner : {{}},
     dirs : SUBSET (1..Len(SiblingNames)), reserved : BOOLEAN,
     bad : {"nowhere", "root", "dirs"}, twin : BOOLEAN]

\* The layout files of a directory, in the order of its listing.
LayoutFiles(layouts) ==
    SelectSeq(layoutNames, LAMBDA n : \E i \in layouts : layoutNames[i] = n)

\* The listing of the project directory, in readdir's (alphabetical) order.
RootListing(project) ==
    (IF project.reserved THEN <<DraftsDir, HiddenMd>> ELSE <<>>)
    \o LayoutFiles(project.layouts)
    \o (IF 1 \in project.dirs THEN <<SiblingNames[1]>> ELSE <<>>)
    \o (IF project.twin THEN <<IndexHtml>> ELSE <<>>)
    \o <<IndexMd>>
    \o (IF project.bad = "root" THEN <<NotesTxt>> ELSE <<>>)
    \o (IF 2 \in project.dirs THEN <<SiblingNames[2]>> ELSE <<>>)
    \o (IF 3 \in project.dirs THEN <<SiblingNames[3]>> ELSE <<>>)

\* The listing of a directory below the project directory.
InnerListing(project) ==
    LayoutFiles(project.inner)
    \o <<IndexMd>>
    \o (IF project.bad = "dirs" THEN <<NotesTxt>> ELSE <<>>)

EntryDirs(project) ==
    (FsRoot :> <<Last(Cwd)>>)
    @@ (Cwd :> RootListing(project))
    @@ [p \in {PathJoin(Cwd, n) : n \in Range(RootListing(project))
                                       \cap (Range(SiblingNames) \cup {DraftsDir})} |->
           InnerListing(project)]

\* The text of a file: a layout names its file, a page its directory.
EntryText(p) ==
    IF StartsWithUnderscore(PathBase(p)) /\ PathExt(p) = ".html"
    THEN <<"<html>", BodySlot, "</html>">>
    ELSE IF StartsWithUnderscore(PathBase(p)) /\ PathExt(p) # ".md"
    THEN <<"<" \o PathExt(p) \o ">", ChildrenSlot, "</" \o PathExt(p) \o ">">>
    ELSE IF PathExt(p) = ".html" THEN <<"html page of">> \o PathBase(PathDir(p))
    ELSE <<"page of">> \o PathBase(PathDir(p))

EntryFiles(project) ==
    [p \in {PathJoin(Cwd, n) : n \in Range(RootListing(project))
                                      \ (Range(SiblingNames) \cup {DraftsDir})}
            \cup {PathJoin(PathJoin(Cwd, d), n) :
                      d \in Range(RootListing(project))
                            \cap (Range(SiblingNames) \cup {DraftsDir}),
                      n \in Range(InnerListing(project))} |->
        File(EntryText(p), <<>>, TRUE)]

InitEntries ==
    /\ cfgFile = "absent"
    /\ \E project \in EntryProjects :
          /\ fsDirs = EntryDirs(project)
          /\ fsFiles = EntryFiles(project)
    /\ InitBuild
    /\ run = 1 /\ firstOut = EmptyMap
    /\ calls = 0 /\ last = <<>>

SpecEntries == InitEntries /\ [][Next]_vars

-----------------------------------------------------------------------------
(* renderPage called on one page with any body (specification SpecRender). *)

\* The sequences over S of at most n elements.
SeqsUpTo(S, n) == UNION {[1..k -> S] : k \in 0..n}

\* The contents of a page, and the bodies: markup, and the character sequences that
\* String.prototype.replace reads as patterns.
PageContents == SeqsUpTo({"<p>", BodySlot, ChildrenSlot}, MaxLen)

Bodies == {NoBody} \cup SeqsUpTo({"<b>", "$$", "$&", "$<", "$'"}, MaxLen)

InitRender ==
    /\ \E type \in {"html", "md", "js"} : \E contents \in PageContents :
          pages = <<Page(PathJoin(Cwd, LayoutHtml), type, EmptyObj, contents)>>
    /\ fsDirs = (FsRoot :> <<Last(Cwd)>>) @@ (Cwd :> <<>>)
    /\ fsFiles = EmptyMap
    /\ cfgFile = "absent"
    /\ scopes = <<>>
    /\ scopecache = EmptyMap /\ filecache = EmptyMap
    /\ pc = "render" /\ outdir = NoPath
    /\ tasks = <<>> /\ frames = <<>> /\ errors = <<>>
    /\ exitCode = -1 /\ written = <<>>
    /\ run = 1 /\ firstOut = EmptyMap
    /\ calls = 0 /\ last = <<>>

\* await renderPage(state, page, params, htmlBody)
CallRenderPage ==
    /\ pc = "render" /\ last = <<>>
    /\ \E htmlBody \in Bodies :
          last' = [op |-> "renderPage", page |-> 1, body |-> htmlBody,
                   result |-> renderPage(pages[1], htmlBody)]
    /\ UNCHANGED <<fsDirs, fsFiles, cfgFile, scopes, pages, scopecache, filecache, pc,
                   outdir, tasks, frames, errors, exitCode, written, run, firstOut,
                   calls>>

NextRender == CallRenderPage

SpecRender == InitRender /\ [][NextRender]_vars

-----------------------------------------------------------------------------
(* Properties of a build (specification Spec).                             *)

\* body, wrapped with the layout that the directory holds, if it holds one
WithLayoutOf(dir, body) ==
    IF PathJoin(dir, LayoutHtml) \in DOMAIN fsFiles
    THEN ReplaceBody(fsFiles[PathJoin(dir, LayoutHtml)].text, body)
    ELSE body

\* body, wrapped with the layouts of dir, of its parent directory, and so on to the
\* project directory, in that order
RECURSIVE WrappedFrom(_, _)
WrappedFrom(dir, body) ==
    IF dir = Cwd THEN WithLayoutOf(dir, body)
    ELSE WrappedFrom(PathDir(dir), WithLayoutOf(dir, body))

\* C1: what renderScope writes for a page is the page's body wrapped with the
\* layouts of its directory, of the parent directory, ..., of the project
\* directory, in that order (R(S(P))); a directory without a layout leaves the
\* body as it is.
NestedLayoutsInnermostFirst ==
    \A i \in 1..Len(written) :
        written[i].text = WrappedFrom(PathDir(pages[written[i].page].path),
                                      pages[written[i].page].contents)

\* A page of a subdirectory is written inside both layouts, the root's outermost;
\* and a page of a subdirectory without a layout inside the root's only.
NestedLayoutsWritten ==
    /\ exists(PathJoin(DirAt(1), LayoutHtml))
    /\ \E i \in 1..Len(written) :
          /\ pages[written[i].page].path = PathJoin(DirAt(1), IndexMd)
          /\ written[i].text = <<"<L0>", "<L1>", "page1", "</L1>", "</L0>">>

\* main() has returned, nothing is in flight, and no error was raised
CompletedWithoutError ==
    /\ exitCode = 0 /\ pc = "done" /\ errors = <<>>
    /\ \A t \in 1..Len(tasks) : tasks[t].pc = "done"

\* C2: when the build completes without error, every page of the project, at every
\* depth, has its output file.
EveryPageHasOutput ==
    CompletedWithoutError => \A p \in SourcePages : OutputOf(p) \in DOMAIN fsFiles

\* The project directory holds none of the layout files.
NoRootLayout == \A i \in 1..Len(layoutNames) : ~exists(PathJoin(Cwd, layoutNames[i]))

\* C3: the build of a project whose directory holds no layout file (the
\* configuration being loaded) fails with the root-layout-missing error, and
\* creates no output directory and writes no output file.
RootLayoutMissingNoOutput ==
    NoRootLayout /\ ~(exists(PathJoin(Cwd, ConfigJson)) /\ cfgFile = "invalid")
    => /\ pc \in {"start", "root", "failed"}
       /\ pc = "failed" => errors = <<Error(0, RootLayoutMissing, TRUE)>>
       /\ exitCode # -1 => pc = "failed"
       /\ written = <<>> /\ tasks = <<>>
       /\ \A p \in DOMAIN fsDirs \cup DOMAIN fsFiles :
             ~(outdir # NoPath /\ IsPrefix(outdir, p))

\* The build of a project without a root layout has failed and ended.
RootLayoutMissingEnded ==
    /\ NoRootLayout /\ exitCode # -1
    /\ errors = <<Error(0, RootLayoutMissing, TRUE)>>
    /\ outdir = DefaultOutdir

\* The creation of a page or of a scope has failed.
CreationFailed ==
    \/ errors # <<>>
    \/ \E t \in 1..Len(tasks) : tasks[t].pc = "failed"

\* C7: in a run in which the creation of a page or of a scope fails, renderScope
\* writes no output file.
FailureWritesNothing == CreationFailed => written = <<>>

\* C8: no run in which a failure was raised ends with status 0.
FailureEndsNonZero == exitCode = 0 => ~CreationFailed

\* The extensions that createPage recognizes.
Recognized == {".md", ".mdx", ".htm", ".html", ".js", ".jsx", ".ts", ".tsx"}

\* The next entry of createScopeChildren call t is a file of another extension.
UnrecognizedNext(t) ==
    /\ tasks[t].pc = "loop"
    /\ ~isDirectory(PathJoin(scopes[tasks[t].scope].path, Head(tasks[t].todo)))
    /\ PathExt(PathJoin(scopes[tasks[t].scope].path, Head(tasks[t].todo))) \notin Recognized

\* C9: createPage, as the tree builder calls it on a file of an unrecognized
\* extension, throws the unrecognized-extension error, makes no page and no entry
\* of the page cache, and the call of createScopeChildren that came to the file
\* fails there, with that error, instead of going on to the next entry.
UnrecognizedExtensionThrows ==
    [][\A t \in 1..Len(tasks) :
          UnrecognizedNext(t) /\ tasks'[t] # tasks[t]
          => /\ tasks'[t].pc = "failed"
             /\ tasks'[t].error = UnrecognizedExtension
             /\ tasks'[t].todo = tasks[t].todo
             /\ pages' = pages /\ filecache' = filecache /\ scopes' = scopes]_vars

\* A call of createScopeChildren has failed at notes.txt.
UnrecognizedExtensionThrown ==
    \E t \in 1..Len(tasks) :
        /\ tasks[t].error = UnrecognizedExtension
        /\ Head(tasks[t].todo) = NotesTxt
        /\ PathJoin(scopes[tasks[t].scope].path, NotesTxt) \notin DOMAIN filecache

\* The configuration is loaded, and no file of it names an output directory.
ConfigWithoutOutdir ==
    /\ pc \notin {"start"}
    /\ exists(PathJoin(Cwd, ConfigJson)) => cfgFile = "noOutdir"

\* C12: when lamb.config.json is absent, or is present and has no key outdir, the
\* output directory of the configuration is <project>/out; and the outdir that
\* renderScope is called with is never undefined.
OutdirDefaultsToOut ==
    /\ ConfigWithoutOutdir => outdir = DefaultOutdir
    /\ \A i \in 1..Len(frames) : frames[i].outdir # NoPath

\* Call t of createScopeChildren is the one that call p started for a directory
\* among its entries.
StartedBy(t, p) ==
    /\ ~tasks[t].awaited
    /\ scopes[tasks[t].scope].parent = tasks[p].scope

\* C17: the tree is built depth-first, one directory after the other: a call of
\* createScopeChildren goes on to its next entry, or returns, only when every call
\* that it started for a directory has come to its end.
ChildrenBuiltDepthFirst ==
    [][\A p \in 1..Len(tasks) :
          tasks'[p] # tasks[p]
          => \A t \in 1..Len(tasks) :
                StartedBy(t, p) => tasks[t].pc \in {"done", "failed"}]_vars

\* The directory of scope i holds a layout file.
HoldsLayoutFile(i) ==
    \E k \in 1..Len(layoutNames) : exists(PathJoin(scopes[i].path, layoutNames[k]))

\* C18: createScope puts the scope in the cache before it makes the page of the
\* layout, so that the lookup of the layout's directory by createPage finds the
\* scope that is being made: every scope made is the one that the cache holds for
\* its path, no scope is made in addition, the lookup never goes up to the parent
\* directories, and the layout of a directory that holds a layout file is made.
ScopeCachedBeforeLayout ==
    /\ \A i \in 1..Len(scopes) :
          /\ scopes[i].path \in DOMAIN scopecache /\ scopecache[scopes[i].path] = i
          /\ HoldsLayoutFile(i) =>
                /\ scopes[i].layout # 0
                /\ PathDir(pages[scopes[i].layout].path) = scopes[i].path
    /\ \A i \in 1..Len(errors) : errors[i].error # StackOverflow

\* The scopes of the project directory and of the directory below it are made, each
\* with its layout, and no other scope.
LayoutsMadeInTheirScopes ==
    /\ Len(scopes) = 2
    /\ scopes[1].layout # 0 /\ scopes[2].layout # 0
    /\ pages[scopes[2].layout].path = PathJoin(DirAt(1), LayoutHtml)

\* C25: no scope is usable without a top-level layout: every scope that the scope
\* cache holds and that is its own root has a layout, in every state, the state
\* after createScope has failed with the root-layout-missing error included.
CachedRootHasLayout ==
    \A p \in DOMAIN scopecache :
        scopes[scopecache[p]].root = scopecache[p] => scopes[scopecache[p]].layout # 0

-----------------------------------------------------------------------------
(* Properties of the build run twice (specification SpecRebuild).          *)

\* C4: when the build is run a second time on the project, no source file edited,
\* and both runs complete without error, the first with an output file for every
\* page, the files under outdir and their texts are after the second run what
\* they were after the first.
SecondBuildSameOutput ==
    /\ run = 2 /\ CompletedWithoutError
    /\ firstOut.exitCode = 0 /\ firstOut.errors = <<>> /\ firstOut.complete
    => OutputFiles = firstOut.files

-----------------------------------------------------------------------------
(* Properties of the operations (specification SpecCalls).                 *)

\* C5: at most one scope is ever made for a path.
OneScopePerPath ==
    \A i, j \in 1..Len(scopes) : scopes[i].path = scopes[j].path => i = j

\* C6: at most one page is ever made for a path, by calls of createPage and getPage
\* (no call of createScopeChildren made, and no scope made twice, whose layout would
\* be made twice with it); and after a createPage that returns, the entry of the
\* page cache for the path is the page returned.
OnePagePerPath ==
    /\ tasks = <<>> /\ OneScopePerPath
       => \A i, j \in 1..Len(pages) : pages[i].path = pages[j].path => i = j
    /\ last # <<>> /\ last.op = "createPage" /\ last.err = ""
       => last.path \in DOMAIN filecache /\ filecache[last.path] = last.ret

\* C28: after any calls of createScope, createScopeChildren and getScope the
\* references of a scope to its parent and root agree with the tree of children:
\* every scope c of the scope cache with a parent p is among the children of p,
\* under the name of its directory, and has the root of p; and a scope without a
\* parent is its own root.
BackReferencesAgree ==
    \A q \in DOMAIN scopecache :
        IF scopes[scopecache[q]].parent = 0
        THEN scopes[scopecache[q]].root = scopecache[q]
        ELSE /\ \E k \in 1..Len(scopes[scopes[scopecache[q]].parent].children) :
                   scopes[scopes[scopecache[q]].parent].children[k] =
                      [key |-> PathBase(q), scope |-> scopecache[q]]
             /\ scopes[scopecache[q]].root = scopes[scopes[scopecache[q]].parent].root

-----------------------------------------------------------------------------
(* Properties of the transform (specification SpecTransform).              *)

\* The import of the component that was transformed.
Imported == fsFiles[last.path].stmts[1]

\* The files of the directory posts, next to the importing file, whose names end in
\* .md, in the order of the directory's listing.
MatchedPosts ==
    LET dir == PathJoin(PathDir(last.path), <<"posts">>)
        names == SelectSeq(fsDirs[dir], LAMBDA n : Last(n) = ".md")
    IN  [i \in 1..Len(names) |-> PathJoin(dir, names[i])]

\* The import is one of posts/*.md: a wildcard, and an extension with a loader.
WildcardImport ==
    /\ last # <<>> /\ last.op = "transform"
    /\ Imported.source \in {<< <<".">>, <<"posts">>, <<"*", ".md">> >>,
                            << <<"posts">>, <<"*", ".md">> >>}

RemainingImport ==
    /\ last # <<>> /\ last.op = "transform"
    /\ PathExt(Imported.source) \notin LoaderMap

\* The specifiers of the import that bind a default or a named export.
BindingSpecifiers ==
    {i \in 1..Len(Imported.specifiers) : Imported.specifiers[i].kind \in {"default", "named"}}

\* The export that specifier sp binds: of the default specifier, "default".
ImportedName(sp) == IF sp.kind = "default" THEN "default" ELSE sp.imported

\* The statements of code that bind local to the export imported of a deferred
\* import of source.
DeferredBindings(code, source, imported, local) ==
    {k \in 1..Len(code) :
        /\ code[k].kind = "const"
        /\ code[k].id = ObjectPattern(imported, local)
        /\ code[k].init = AwaitImport(source)}

\* C11: the dynamic-import pass rewrites a static import that the special-import
\* pass leaves alone without error, and every default or named binding of the
\* import is bound after it, under its local name, by a deferred import of the
\* same source.
DynamicImportKeepsBindings ==
    RemainingImport =>
        /\ last.result.err = ""
        /\ \A i \in BindingSpecifiers :
              DeferredBindings(last.result.code, Imported.source,
                               ImportedName(Imported.specifiers[i]),
                               Imported.specifiers[i].local) # {}

\* The import with one named specifier is rewritten and keeps its binding.
DynamicImportOfOneName ==
    /\ RemainingImport
    /\ Imported.specifiers = <<Specifier("named", "h", "posts")>>
    /\ last.result.code[1] = Const(ObjectPattern("h", "posts"), AwaitImport(Imported.source), TRUE)

\* The lines of text that consist of three hyphens and nothing else.
DelimiterLines(text) == {k \in 1..Len(text) : text[k] = Dashes}

\* The lines between the first and the second delimiter line of text; none when
\* text has fewer than two.
BetweenDelimiters(text) ==
    LET d == DelimiterLines(text)
        first == CHOOSE k \in d : \A j \in d : k <= j
        second == CHOOSE k \in d \ {first} : \A j \in d \ {first} : k <= j
    IN  IF Cardinality(d) < 2 THEN <<>> ELSE SubSeq(text, first + 1, second - 1)

\* The frontmatter of the file: the keys and values between the delimiter lines,
\* and the key file.
FrontmatterOf(file) ==
    ObjSet(YamlMap(BetweenDelimiters(fsFiles[file].text), EmptyObj), "file", PathStr(file))

\* C13: the value that the markup loader yields for a file, as the wildcard import
\* calls it, holds exactly the keys and values that stand between the first and
\* the second line of the file that consists of three hyphens only, and none when
\* the file has fewer than two such lines; three hyphens at the end of a longer
\* line delimit nothing.
LoaderReadsDelimitedBlock ==
    WildcardImport =>
        /\ last.result.err = ""
        /\ last.result.code[1].init.elements =
              [i \in 1..Len(MatchedPosts) |-> valueToBabelExpr(FrontmatterOf(MatchedPosts[i]))]

\* A file with a block of two keys between its delimiter lines was loaded.
LoaderReadTwoKeys ==
    /\ WildcardImport /\ last.result.err = ""
    /\ \E i \in 1..Len(MatchedPosts) :
          /\ Len(BetweenDelimiters(fsFiles[MatchedPosts[i]].text)) = 2
          /\ Len(last.result.code[1].init.elements[i].properties) = 3

\* The import names one file, of an extension with a loader, and the file is there:
\* the path of the import, taken from the directory of the importing file.
ImportedFile == Normalize(PathDir(last.path), Imported.source)

SingleImport ==
    /\ last # <<>> /\ last.op = "transform"
    /\ PathExt(Imported.source) \in LoaderMap /\ ~IncludesStar(Imported.source)
    /\ ImportedFile \in DOMAIN fsFiles

\* C16: the value that the loader gives to the binding of a special import, each
\* element of it for an import with a wildcard and the value itself for an import
\* of one file, is what the loader yields for the absolute path of the file: the
\* keys of the file's frontmatter, and the key file with that absolute path.
LoaderValueOfAbsolutePath ==
    /\ WildcardImport /\ last.result.err = "" =>
          last.result.code[1].init.elements =
             [i \in 1..Len(MatchedPosts) |->
                 valueToBabelExpr(LoadersMarkdown(MatchedPosts[i]).ret)]
    /\ SingleImport =>
          /\ last.result.err = LoadersMarkdown(ImportedFile).err
          /\ last.result.err = "" =>
                last.result.code[1].init = valueToBabelExpr(LoadersMarkdown(ImportedFile).ret)

\* The import of the one file a.md was replaced with a constant.
SingleImportLoaded ==
    /\ SingleImport /\ last.result.err = ""
    /\ last.result.code[1].kind = "const"

\* The special-import pass has run alone, on an import whose source has an
\* extension without a loader.
PassedOverImport ==
    /\ last # <<>> /\ last.op = "SpecialImports"
    /\ PathExt(Imported.source) \notin {".md", ".mdx"}

\* C21: the special-import pass leaves an import whose source has an extension
\* without a loader as it is: the statements after the pass are those before it,
\* the pass calls no loader, and it does not fail.
UnmatchedImportUntouched ==
    PassedOverImport =>
        /\ last.result.err = ""
        /\ last.result.code = fsFiles[last.path].stmts
        /\ last.result.loaded = <<>>

\* The import of ./posts/*.txt, with notes.txt in the directory, has passed.
TxtImportPassedOver ==
    /\ PassedOverImport
    /\ Imported.source = << <<".">>, <<"posts">>, <<"*", ".txt">> >>
    /\ PathJoin(PostsDir, NotesTxt) \in DOMAIN fsFiles
    /\ last.result.code[1] = Imported

\* The three passes have run, as createJavascriptPage hands them to transform.
PageTransformed == last # <<>> /\ last.op = "transform"

\* C22: in the transform of a programmatic page the special-import pass comes to an
\* import before the dynamic-import pass: an import that the special-import pass
\* has replaced with a constant is not rewritten into a deferred import, and an
\* import that it has left as it is is rewritten into one afterwards.
SpecialBeforeDynamicImports ==
    PageTransformed =>
        IF PathExt(Imported.source) \in LoaderMap
        THEN last.result.err = "" =>
                /\ last.result.code[1].kind = "const"
                /\ last.result.code[1].id = Identifier(Imported.specifiers[1].local)
                /\ last.result.code[1].init.type # "AwaitExpression"
        ELSE /\ last.result.err = ""
             /\ last.result.code[1].kind = "const"
             /\ last.result.code[1].init = AwaitImport(Imported.source)

\* An import of markdown files was replaced with a constant, and stays one.
SpecialImportStaysConstant ==
    /\ PageTransformed /\ PathExt(Imported.source) \in LoaderMap
    /\ last.result.err = ""
    /\ last.result.code[1].id = Identifier("posts")

\* The component declares frontmatter, and the passes have come past its import.
DeclaresFrontmatter ==
    /\ PageTransformed
    /\ Len(fsFiles[last.path].stmts) = 3
    /\ fsFiles[last.path].stmts[2].id = Identifier("frontmatter")
    /\ Len(last.result.code) >= 2

Declared == fsFiles[last.path].stmts[2]

\* The initializer is an object of literals, arrays and objects of them.
StructuralLiteral(init) == init.type = "ObjectExpression" /\ Supported(init)

\* C23: the frontmatter-extraction pass copies the value of the binding frontmatter
\* into the accumulator when the binding stands at the top level of the source and
\* its initializer is a structural literal, and only then: a binding frontmatter
\* inside a function or a block leaves the accumulator as it was.
FrontmatterOnlyFromTopLevel ==
    DeclaresFrontmatter =>
        last.result.fm = IF Declared.top /\ StructuralLiteral(Declared.init)
                         THEN babelExprToValue(Declared.init)
                         ELSE EmptyObj

\* The frontmatter of a declaration at the top level was copied.
TopLevelFrontmatterCopied ==
    /\ DeclaresFrontmatter
    /\ Declared.top /\ StructuralLiteral(Declared.init)
    /\ last.result.fm = Obj(<<"title">>, <<Str("A")>>)

-----------------------------------------------------------------------------
(* Properties of renderPage (specification SpecRender).                    *)

\* renderPage was called on a page of type html.
HtmlRendered == last # <<>> /\ last.op = "renderPage" /\ pages[last.page].type = "html"

\* contents with its first placeholder, and with every placeholder, replaced by
\* body as it is.
FirstPlaced(contents, body) ==
    IF BodySlot \notin Range(contents) THEN contents
    ELSE LET i == CHOOSE k \in 1..Len(contents) :
                      contents[k] = BodySlot /\ \A j \in 1..(k - 1) : contents[j] # BodySlot
         IN  SubSeq(contents, 1, i - 1) \o body \o SubSeq(contents, i + 1, Len(contents))

EachPlaced(contents, body) ==
    Concat([i \in 1..Len(contents) |->
               IF contents[i] = BodySlot THEN body ELSE <<contents[i]>>])

\* C14: renderHtmlPage returns the contents of the page as they are when no body is
\* given; with a body it returns the contents with the placeholder {{body}}
\* replaced by exactly the body, whatever the body is, and the contents as they
\* are when they hold no placeholder.
HtmlBodyPlacedExactly ==
    HtmlRendered =>
        IF last.body = NoBody THEN last.result = pages[last.page].contents
        ELSE last.result \in {FirstPlaced(pages[last.page].contents, last.body),
                              EachPlaced(pages[last.page].contents, last.body)}

\* A body of markup was placed in a layout of type html.
HtmlBodyPlaced ==
    /\ HtmlRendered
    /\ pages[last.page].contents = <<"<p>", BodySlot>>
    /\ last.body = <<"<b>">> /\ last.result = <<"<p>", "<b>">>

-----------------------------------------------------------------------------
(* Properties of the build of a directory's entries (specification         *)
(* SpecEntries).                                                           *)

\* The call of createScopeChildren for the project directory has returned.
RootEntriesDone == tasks # <<>> /\ tasks[1].pc = "done"

\* The directories of the project directory whose names do not start with "_".
SourceDirs == {n \in Range(SiblingNames) : isDirectory(PathJoin(Cwd, n))}

\* C15: once createScopeChildren has gone through the project directory, the
\* children of its scope hold, for every directory D in it that is not reserved,
\* an entry whose key is the name D as it is, dots included, and whose scope is the
\* one of D, so that no two directories share a key; and what renderScope writes
\* for a page lies under outdir at the page's directory, D.
ChildKeyIsDirectoryName ==
    /\ RootEntriesDone =>
          \A n \in SourceDirs :
             \E i \in 1..Len(scopes[tasks[1].scope].children) :
                /\ scopes[tasks[1].scope].children[i].key = n
                /\ scopes[scopes[tasks[1].scope].children[i].scope].path = PathJoin(Cwd, n)
    /\ \A i \in 1..Len(written) :
          written[i].path = OutputOf(pages[written[i].page].path)

\* The page of the directory docs is written under outdir/docs.
ChildWrittenUnderName ==
    \E i \in 1..Len(written) :
        /\ pages[written[i].page].path = PathJoin(PathJoin(Cwd, SiblingNames[1]), IndexMd)
        /\ written[i].path = PathJoin(PathJoin(outdir, SiblingNames[1]), <<"index", ".html">>)

\* The layout files that the directory of scope i holds (indices of layoutNames).
LayoutFilesOf(i) ==
    {k \in 1..Len(layoutNames) : exists(PathJoin(scopes[i].path, layoutNames[k]))}

\* C19: the layout of a scope is the page of the layout file of its directory that
\* comes last in the order _layout.html, _layout.js, _layout.jsx, _layout.ts,
\* _layout.tsx; a scope whose directory holds none of them has no layout.
LastLayoutFileWins ==
    \A i \in 1..Len(scopes) :
        IF LayoutFilesOf(i) = {} THEN scopes[i].layout = 0
        ELSE /\ scopes[i].layout # 0
             /\ pages[scopes[i].layout].path =
                   PathJoin(scopes[i].path,
                            layoutNames[CHOOSE k \in LayoutFilesOf(i) :
                                           \A j \in LayoutFilesOf(i) : j <= k])

\* The project directory holds the five layout files and the directory below it
\* two; their scopes have the layouts _layout.tsx and _layout.ts.
LastOfSeveralLayouts ==
    /\ Len(scopes) = 2
    /\ LayoutFilesOf(1) = 1..5 /\ LayoutFilesOf(2) = {2, 4}
    /\ pages[scopes[1].layout].path = PathJoin(Cwd, layoutNames[5])
    /\ pages[scopes[2].layout].path = PathJoin(scopes[2].path, layoutNames[4])

\* The page is the layout of a scope.
IsLayout(page) == \E i \in 1..Len(scopes) : scopes[i].layout = page

\* C20: no entry of a directory whose name starts with "_" is among the pages or
\* the children of a scope, and renderScope writes no output for a layout or for
\* another reserved entry.
ReservedEntriesLeftOut ==
    /\ \A i \in 1..Len(scopes) :
          /\ \A k \in 1..Len(scopes[i].pages) :
                /\ ~StartsWithUnderscore(PathBase(pages[scopes[i].pages[k]].path))
                /\ ~IsLayout(scopes[i].pages[k])
          /\ \A k \in 1..Len(scopes[i].children) :
                /\ ~StartsWithUnderscore(scopes[i].children[k].key)
                /\ ~StartsWithUnderscore(PathBase(scopes[scopes[i].children[k].scope].path))
    /\ \A i \in 1..Len(written) :
          /\ ~IsLayout(written[i].page)
          /\ \A k \in 1..Len(pages[written[i].page].path) :
                ~StartsWithUnderscore(pages[written[i].page].path[k])
          /\ \A k \in 1..Len(written[i].path) : ~StartsWithUnderscore(written[i].path[k])

\* The build of a project with a reserved directory, a reserved markdown file and
\* a layout has written its pages and returned.
ReservedProjectBuilt ==
    /\ isDirectory(PathJoin(Cwd, DraftsDir)) /\ exists(PathJoin(Cwd, HiddenMd))
    /\ pc = "done" /\ Len(written) >= 2
    /\ \A t \in 1..Len(tasks) : tasks[t].pc = "done"

\* C27: in a run of renderScope no output file is written twice: two pages of one
\* directory, index.md and index.html for example, are written to two output
\* paths, and the output of no page replaces that of another.
NoOutputWrittenTwice ==
    \A i, j \in 1..Len(written) : written[i].path = written[j].path => i = j

-----------------------------------------------------------------------------
(* Properties of getScope (specification SpecLookup).                      *)

\* The step is a call of getScope.
LookupStep == calls' = calls + 1 /\ last'.op = "getScope"

\* C24: getScope(path) returns the scope that the scope cache holds for path,
\* and leaves the heaps and both caches as they are, when the cache holds one;
\* otherwise, when it returns, the scope cache holds the scope of the parent path,
\* which was there or was made first, the scope returned is a new one with that
\* scope as its parent and that scope's root as its root, and the scope cache maps
\* path to it.
GetScopeCachedOrCreated ==
    [][LookupStep =>
          IF last'.path \in DOMAIN scopecache
          THEN /\ last'.err = "" /\ last'.ret = scopecache[last'.path]
               /\ scopes' = scopes /\ pages' = pages
               /\ scopecache' = scopecache /\ filecache' = filecache
          ELSE last'.err = "" =>
                  /\ last'.ret > Len(scopes)
                  /\ scopecache'[last'.path] = last'.ret
                  /\ scopes'[last'.ret].path = last'.path
                  /\ PathDir(last'.path) \in DOMAIN scopecache'
                  /\ scopes'[last'.ret].parent = scopecache'[PathDir(last'.path)]
                  /\ scopes'[last'.ret].parent < last'.ret
                  /\ scopes'[last'.ret].root = scopes'[scopes'[last'.ret].parent].root]_vars

\* getScope has made the scope of a directory two below the project directory,
\* and the scope of the directory between them before it.
LookupMadeParentFirst ==
    /\ last # <<>> /\ last.op = "getScope" /\ last.err = ""
    /\ last.path = DirAt(2) /\ last.scopes = 1 /\ Len(scopes) = 3
    /\ scopes[3].parent = 2 /\ scopes[2].path = DirAt(1) /\ scopes[2].parent = 1
    /\ scopes[3].root = 1

\* C26: getScope(path) terminates for every absolute path: a call of it returns a
\* scope, also when the scope cache holds no scope of a directory above path, and
\* never runs up the directories without end.
GetScopeTerminates ==
    last # <<>> /\ last.op = "getScope" => last.err # StackOverflow

=============================================================================
